---- MODULE Spec2Model ----
(***************************************************************************)
(* Model of the trade-bot repository:                                      *)
(*   selenium_open_page.py  the scraper (listing traversal, per-item       *)
(*                          harvest in a new tab, attachment download and  *)
(*                          text extraction, insert into the articles      *)
(*                          table),                                        *)
(*   database_setup.py      the schema of the articles table,              *)
(*   analysis.py            the analysis script and its UPDATE.            *)
(*                                                                         *)
(* The remote site is an environment.  Its listing (the pages and their    *)
(* <li> elements) is chosen in Init; every response it gives to a bounded  *)
(* wait (page load, filter button, detail page, download, next-page        *)
(* control) is chosen the first time the program asks and is the same      *)
(* every later time: the site does not change between runs.  The browser's *)
(* answer to window.open is chosen anew each time.                         *)
(***************************************************************************)
EXTENDS Integers, Sequences, FiniteSets, TLC

\* ------------------------------------------------------------------ bounds

\* total number of <li> elements of the whole listing, over all its pages
MaxListing == 2
\* number of executions of the scraper script
MaxRuns == 2
\* number of processes that call add_article_to_db concurrently
NumProcs == 3
\* number of calls of update_article_analysis_advanced
MaxUpdates == 3
\* number of executions of analysis.py
MaxAnalyses == 2
\* number of links of the detail page whose attachments are varied
MaxLinks == 2
\* calls of add_article_to_db beside an analysis
NumScrapers == 2
\* cap of the page counter of main: a listing of MaxListing items has at most
\* MaxListing pages with items
MaxPageNo == MaxListing + 1

\* ------------------------------------------------------------------ values

NULL == "NULL"
Unknown == "?"
BASE_URL == "https://www.saudiexchange.sa"
NL == "\n"

\* the href attributes the fixtures use: host "" is a relative reference
RelHref(path) == [host |-> "", path |-> path]
AbsHref(host, path) == [host |-> host, path |-> path]

\* urllib.parse.urljoin(base, href): a relative reference is resolved against
\* the base's host, an absolute one is kept
urljoin(base, href) ==
    IF href.host = "" THEN [host |-> base, path |-> href.path] ELSE href

\* the <li> elements a listing page can show: two of them point to the same
\* article (once by a relative, once by an absolute href, with another title),
\* one has no <h2>
Lis ==
    { [href |-> RelHref("/n/1"), title |-> "t1", date |-> "d1", h2 |-> TRUE],
      [href |-> AbsHref(BASE_URL, "/n/1"), title |-> "t1x", date |-> "d2", h2 |-> TRUE],
      [href |-> RelHref("/n/2"), title |-> "t2", date |-> "d1", h2 |-> TRUE],
      [href |-> RelHref("/n/3"), title |-> "", date |-> "d1", h2 |-> FALSE] }

URLs == { urljoin(BASE_URL, li.href) : li \in Lis }

\* the sequences of k different <li> elements
Listings(k) == { f \in [1..k -> Lis] : \A i, j \in 1..k : f[i] = f[j] => i = j }

\* a listing: its <li> elements in order (each element once; two elements can
\* point to the same article), and after which of them a page ends
Sites ==
    UNION { { [flat |-> f, cuts |-> c] : f \in Listings(k), c \in SUBSET (1..(k - 1)) }
            : k \in 0..MaxListing }

CountBelow(S, n) == Cardinality({ x \in S : x < n })

NumPages(s) == IF Len(s.flat) = 0 THEN 0 ELSE Cardinality(s.cuts) + 1

\* the positions in s.flat of the <li> elements of page p
PageIdx(s, p) == { i \in 1..Len(s.flat) : CountBelow(s.cuts, i) = p - 1 }

SetMin(S) == CHOOSE x \in S : \A y \in S : x <= y

\* page p of listing s, in DOM order; a page past the last one never populates
PageLis(s, p) ==
    IF PageIdx(s, p) = {} THEN << >>
    ELSE [j \in 1..Cardinality(PageIdx(s, p)) |-> s.flat[SetMin(PageIdx(s, p)) + j - 1]]

\* ------------------------------------------------------------------ text

\* A text is a sequence of pieces; str.join puts the separator between parts.
RECURSIVE Join(_, _)
Join(sep, parts) ==
    IF Len(parts) = 0 THEN << >>
    ELSE IF Len(parts) = 1 THEN parts[1]
    ELSE parts[1] \o <<sep>> \o Join(sep, Tail(parts))

RECURSIVE Concat(_)
Concat(texts) == IF Len(texts) = 0 THEN << >> ELSE texts[1] \o Concat(Tail(texts))

\* ------------------------------------------------------------------ detail pages

\* the characters of a text as one string
RECURSIVE Str(_)
Str(chars) == IF chars = << >> THEN "" ELSE chars[1] \o Str(Tail(chars))

\* the <a href> targets the detail pages carry: the file name and the ending
\* of the href from its last dot, character by character
Link(name, ext) == [name |-> name, ext |-> ext]

\* what the detail page of a url shows: the <p> under <main>, all <p>, and the
\* links; a paragraph "" is one whose text is only white space
DetailDoc(url) ==
    IF url.path = "/n/1"
    THEN [mainP |-> <<"Co X announced Y today.", "", "More.">>,
          allP |-> <<"Co X announced Y today.", "", "More.", "footer">>,
          links |-> <<Link("a.pdf", <<".", "p", "d", "f">>), Link("index.html", <<".", "h", "t", "m", "l">>),
                      Link("b.docx", <<".", "d", "o", "c", "x">>)>>]
    ELSE [mainP |-> << >>,
          allP |-> <<"Only paragraph.">>,
          links |-> << >>]

\* the endings of the hrefs a detail page can carry, in document order: the
\* eight kinds of document the pattern names, one of them in upper case, and a
\* link to another page
LinkExtChars ==
    << <<".", "p", "d", "f">>,
       <<".", "P", "D", "F">>,
       <<".", "d", "o", "c">>,
       <<".", "d", "o", "c", "x">>,
       <<".", "x", "l", "s">>,
       <<".", "x", "l", "s", "x">>,
       <<".", "p", "p", "t">>,
       <<".", "p", "p", "t", "x">>,
       <<".", "z", "i", "p">>,
       <<".", "h", "t", "m", "l">> >>

\* the same endings as strings
LinkExts == [i \in 1..Len(LinkExtChars) |-> Str(LinkExtChars[i])]

\* the link with the i-th ending: its file is named "f" and the ending
ExtLink(i) == Link("f" \o LinkExts[i], LinkExtChars[i])

FileNames == { "a.pdf", "b.docx" } \cup { ExtLink(i).name : i \in 1..Len(LinkExts) }

\* the files behind the links: pathlib's suffix of the name (the case is kept),
\* the units a decoder yields (pages, paragraphs, or sheets of rows of cells),
\* and whether the decoder rejects the file
FileOf(name) ==
    IF name = "a.pdf" THEN [name |-> name, suffix |-> ".pdf", units |-> <<"pdf page 1", "pdf page 2">>, corrupt |-> FALSE]
    ELSE IF name = "b.docx" THEN [name |-> name, suffix |-> ".docx", units |-> <<"docx paragraph">>, corrupt |-> FALSE]
    ELSE IF name = "f.xlsx" THEN [name |-> name, suffix |-> ".xlsx", units |-> << << <<"c1", "", "c2">>, <<"">> >> >>, corrupt |-> FALSE]
    ELSE IF \E i \in 1..Len(LinkExts) : name = ExtLink(i).name
    THEN [name |-> name, suffix |-> LinkExts[CHOOSE i \in 1..Len(LinkExts) : name = ExtLink(i).name],
          units |-> <<"text of " \o name>>, corrupt |-> FALSE]
    ELSE [name |-> name, suffix |-> "", units |-> << >>, corrupt |-> FALSE]

\* the same file with bytes its decoder rejects
Corrupt(file) == [file EXCEPT !.corrupt = TRUE]

\* the lower-case form of one character
LowerChar(c) ==
    CASE c = "A" -> "a" [] c = "B" -> "b" [] c = "C" -> "c" [] c = "D" -> "d" [] c = "E" -> "e" [] c = "F" -> "f" []
         c = "G" -> "g" [] c = "H" -> "h" [] c = "I" -> "i" [] c = "J" -> "j" [] c = "K" -> "k" [] c = "L" -> "l" []
         c = "M" -> "m" [] c = "N" -> "n" [] c = "O" -> "o" [] c = "P" -> "p" [] c = "Q" -> "q" [] c = "R" -> "r" []
         c = "S" -> "s" [] c = "T" -> "t" [] c = "U" -> "u" [] c = "V" -> "v" [] c = "W" -> "w" [] c = "X" -> "x" []
         c = "Y" -> "y" [] c = "Z" -> "z" []
         OTHER -> c

\* str.lower, which is how re.I compares: every character in lower case
Lower(ext) == [i \in 1..Len(ext) |-> LowerChar(ext[i])]

\* DL_EXT_PATTERN = \.(pdf|docx?|xlsx?|pptx?|zip)$ with re.I, on the ending of
\* the href
DL_EXT_PATTERN(link) ==
    Str(Lower(link.ext)) \in { ".pdf", ".doc", ".docx", ".xls", ".xlsx", ".ppt", ".pptx", ".zip" }

\* text of one spreadsheet row: every non-empty cell followed by a space, then a newline
RowText(row) ==
    Concat([i \in 1..Len(row) |-> IF row[i] = "" THEN << >> ELSE <<row[i], " ">>]) \o <<NL>>

\* the suffixes extract_text_from_file has a branch for (lines 162, 167, 171)
DecodedSuffixes == { ".pdf", ".docx", ".xlsx" }

\* an except branch whose placeholder names neither the file nor the error
extract_text_from_file_unnamed(file) ==
    IF file.suffix \in DecodedSuffixes /\ file.corrupt
    THEN <<"[Error extracting text]">>
    ELSE IF file.suffix \in { ".pdf", ".docx" }
    THEN Concat([i \in 1..Len(file.units) |-> <<file.units[i], NL>>])
    ELSE IF file.suffix = ".xlsx"
    THEN Concat([i \in 1..Len(file.units) |->
                    Concat([j \in 1..Len(file.units[i]) |-> RowText(file.units[i][j])])])
    ELSE << >>

\* extract_text_from_file: the dispatch on the suffix, and the placeholder
extract_text_from_file(file) ==
    IF file.suffix \in DecodedSuffixes /\ file.corrupt
    THEN <<"[Error extracting text from ", file.name, ": ", "decode error", "]">>
    ELSE IF file.suffix \in { ".pdf", ".docx" }
    THEN Concat([i \in 1..Len(file.units) |-> <<file.units[i], NL>>])
    ELSE IF file.suffix = ".xlsx"
    THEN Concat([i \in 1..Len(file.units) |->
                    Concat([j \in 1..Len(file.units[i]) |-> RowText(file.units[i][j])])])
    ELSE << >>

\* the block scrape_article appends for a downloaded file
Block(filename, file_text) == <<"--- CONTENT FROM ", filename, " ---", NL>> \o file_text

\* lines 236-237: the paragraphs under <main>, or else all paragraphs; the
\* stripped non-empty ones joined by newlines
BodyText(doc) ==
    LET paragraphs == IF doc.mainP # << >> THEN doc.mainP ELSE doc.allP
        kept == SelectSeq(paragraphs, LAMBDA t : t # "")
    IN  Join(NL, [i \in 1..Len(kept) |-> <<kept[i]>>])

\* ------------------------------------------------------------------ articles table

\* an INSERT whose values for article_text and attachments_text are swapped
NewRow_swapped_texts(id, data, now) ==
    [id |-> id,
     title |-> data.title,
     url |-> data.url,
     publication_date |-> data.date,
     scraped_at |-> now,
     article_text |-> data.attachments_text,
     attachments_text |-> data.article_text,
     processing_status |-> "pending",
     llm_evaluation |-> NULL,
     llm_reasoning |-> NULL,
     llm_confidence |-> NULL,
     company_name |-> NULL,
     llm_full_response |-> NULL]

\* database_setup.py: the columns of a row with their defaults; company_name
\* and llm_full_response are the columns analysis.py assumes were added
NewRow(id, data, now) ==
    [id |-> id,
     title |-> data.title,
     url |-> data.url,
     publication_date |-> data.date,
     scraped_at |-> now,
     article_text |-> data.article_text,
     attachments_text |-> data.attachments_text,
     processing_status |-> "pending",
     llm_evaluation |-> NULL,
     llm_reasoning |-> NULL,
     llm_confidence |-> NULL,
     company_name |-> NULL,
     llm_full_response |-> NULL]

UrlsOf(rows) == { rows[i].url : i \in 1..Len(rows) }

\* a table whose url column carries no UNIQUE constraint
UniqueViolated_none(rows, url) == FALSE

\* url TEXT NOT NULL UNIQUE: would a row with this url break the constraint?
UniqueViolated(rows, url) == url \in UrlsOf(rows)

\* id INTEGER PRIMARY KEY: one more than the largest id
NextId(rows) == Len(rows) + 1

\* an insert that never meets sqlite3.IntegrityError
add_article_to_db_always(rows, article_data, now) ==
    [rows |-> Append(rows, NewRow(Len(rows) + 1, article_data, now)), added |-> TRUE]

\* an INSERT OR REPLACE: the row with the url is overwritten
add_article_to_db_replace(rows, article_data, now) ==
    IF UniqueViolated(rows, article_data.url)
    THEN [rows |-> [i \in 1..Len(rows) |->
                       IF rows[i].url = article_data.url
                       THEN NewRow(rows[i].id, article_data, now) ELSE rows[i]],
          added |-> FALSE]
    ELSE [rows |-> Append(rows, NewRow(NextId(rows), article_data, now)), added |-> TRUE]

\* sqlite3 INSERT under the UNIQUE constraint: the rows afterwards, and whether
\* the row was added (True) or sqlite3.IntegrityError was raised (False)
add_article_to_db(rows, article_data, now) ==
    IF UniqueViolated(rows, article_data.url)
    THEN [rows |-> rows, added |-> FALSE]
    ELSE [rows |-> Append(rows, NewRow(NextId(rows), article_data, now)), added |-> TRUE]

\* a row written by an earlier use of the store, already analysed
OldRow ==
    [id |-> 1,
     title |-> "t1 (old)",
     url |-> [host |-> BASE_URL, path |-> "/n/1"],
     publication_date |-> "d0",
     scraped_at |-> 0,
     article_text |-> <<"old body">>,
     attachments_text |-> << >>,
     processing_status |-> "processed",
     llm_evaluation |-> "Bullish",
     llm_reasoning |-> "json:r0",
     llm_confidence |-> "8",
     company_name |-> "Co X",
     llm_full_response |-> "json:J0"]

InitialLedgers == { << >>, <<OldRow>> }

\* ------------------------------------------------------------------ state

VARIABLES
    site,              \* the listing of the remote site
    resp,              \* the responses the site has given so far
    dbExists,          \* stock_news.db exists
    hasTable,          \* the file holds the articles table
    db,                \* the committed rows of the articles table, by id
    run,               \* number of executions of the scraper started
    pc,                \* position of the scraper
    hist,              \* one summary per finished execution
    session,           \* the browser session: "none", "open", "quit"
    tabs,              \* number of windows besides the listing window
    focus,             \* the window the driver is switched to
    filtered,          \* the period filter was clicked
    screenshot,        \* debug_screenshot.png was saved in this execution
    cursor,            \* the active page indicator of the listing window
    page_no,           \* main's page_no
    articles_on_page,  \* main's articles_on_page
    idx,               \* position of main's for loop in articles_on_page
    article_text,      \* scrape_article's article_text
    parts,             \* scrape_article's attachments_text_parts
    linkIdx,           \* position of scrape_article's loop over the links
    saved,             \* the full_article_data handed to add_article_to_db
    exc,               \* the exception that is propagating, if any
    reads,             \* the pages extract_list_items read in this execution
    navs,              \* the pages whose next control was clicked
    inserted,          \* rows added in this execution
    argv,              \* sys.argv of the last execution started
    adv,               \* what the last call of goto_next_page saw and returned
    attach,            \* the links of the detail page of /n/1, and the corrupt files
    env,               \* how the script is used: with --keep, beside other connections
    cpc,               \* concurrent callers of add_article_to_db: their positions
    cdata,             \* their article_data
    cret,              \* what their call returned
    lock,              \* the connection that holds sqlite's write lock, or 0
    txn,               \* the rows as the open write transaction has them
    columns,           \* the columns added to the table after database_setup.py
    alog,              \* how the executions of analysis.py's main ended
    nupd,              \* number of calls of update_article_analysis_advanced
    upc,               \* position of the call of update_article_analysis_advanced
    ures               \* what the last call of it that ended has logged

scraperVars ==
    <<site, attach, env, resp, run, argv, pc, hist, session, tabs, focus, filtered,
      screenshot, cursor, page_no, articles_on_page, idx, article_text, parts,
      linkIdx, saved, exc, reads, navs, inserted, adv>>

concVars == <<cpc, cdata, cret, lock, txn>>
anaVars == <<columns, alog, nupd, upc, ures>>
sideVars == <<concVars, anaVars>>

vars == <<scraperVars, dbExists, hasTable, db, concVars, anaVars>>

Procs == 1..NumProcs

NoExc == [type |-> "none", at |-> "none"]
Raised(type, at) == [type |-> type, at |-> at]

Pages == 1..(MaxListing + 1)

\* goto_next_page was not called yet
NoAdv == [page |-> 0, control |-> "none", clicked |-> FALSE, stale |-> FALSE,
          changed |-> FALSE, ret |-> "none", raised |-> "none"]

\* nothing asked of the site yet
NoResp ==
    [load |-> Unknown,
     period |-> Unknown,
     detail |-> [u \in URLs |-> Unknown],
     dl |-> [f \in FileNames |-> Unknown],
     next |-> [p \in Pages |-> Unknown]]

\* the site answers o to question q: its first answer, or the one it gave before
Answers(known, o) == known = Unknown \/ known = o

\* no concurrent caller, no analysis
SideIdle ==
    /\ cpc = [p \in Procs |-> "idle"]
    /\ cdata = [p \in Procs |-> << >>]
    /\ cret = [p \in Procs |-> "none"]
    /\ lock = 0
    /\ txn = << >>
    /\ columns = {}
    /\ alog = << >>
    /\ nupd = 0
    /\ upc = "idle"
    /\ ures = "none"

\* the scraper before its first execution
ScraperIdle ==
    /\ resp = NoResp
    /\ run = 0
    /\ pc = "start"
    /\ hist = << >>
    /\ session = "none"
    /\ tabs = 0
    /\ focus = "none"
    /\ filtered = FALSE
    /\ screenshot = FALSE
    /\ cursor = 0
    /\ page_no = 0
    /\ articles_on_page = << >>
    /\ idx = 0
    /\ article_text = << >>
    /\ parts = << >>
    /\ linkIdx = 0
    /\ saved = << >>
    /\ exc = NoExc
    /\ reads = << >>
    /\ navs = {}
    /\ inserted = 0
    /\ argv = << >>
    /\ adv = NoAdv

\* the script is started without --keep and, as the design has it, is the only
\* connection to the store while it runs
SoleUnattended == env = [keep |-> FALSE, shared |-> FALSE]

\* any use: the operator may pass --keep or not, and other connections (an
\* analysis, a second scraper) may hold the store's write lock or not
AnyUse == env = [keep |-> TRUE, shared |-> TRUE]

\* the detail pages and the files of the site as DetailDoc and FileOf have them
SiteContent ==
    attach = [links |-> DetailDoc([host |-> BASE_URL, path |-> "/n/1"]).links, bad |-> {}]

\* the detail page the site serves for a url
DetailPage(url) ==
    IF url.path = "/n/1" THEN [DetailDoc(url) EXCEPT !.links = attach.links]
    ELSE DetailDoc(url)

\* the file the site serves for an attachment name
DownloadedFile(name) ==
    IF name \in attach.bad THEN Corrupt(FileOf(name)) ELSE FileOf(name)

\* the store before the first execution: no file; the empty file that
\* sqlite3.connect leaves when analysis.py is run before database_setup.py
\* (get_db_connection creates it, the SELECT then fails); or the file with the
\* table, empty or with a row of earlier use
StoreStates ==
    /\ dbExists \in BOOLEAN
    /\ hasTable \in (IF dbExists THEN BOOLEAN ELSE { FALSE })
    /\ db \in (IF hasTable THEN InitialLedgers ELSE { << >> })

Init ==
    /\ site \in Sites
    /\ SiteContent
    /\ SoleUnattended
    /\ StoreStates
    /\ ScraperIdle
    /\ SideIdle

\* the variables of one harvest
itemVars == <<article_text, parts, linkIdx, saved>>
\* the variables of the listing window
listVars == <<cursor, page_no, articles_on_page, idx>>
\* the browser
browserVars == <<session, tabs, focus>>
\* what an execution has done so far
traceVars == <<reads, navs, inserted, adv>>

\* the end of an execution: its summary, and the state of a fresh process
Summary(outcome, code) ==
    [outcome |-> outcome, exit |-> code, at |-> exc.at, screenshot |-> screenshot,
     reads |-> reads, navs |-> navs, inserted |-> inserted, filtered |-> filtered,
     dbAfter |-> db, adv |-> adv]

Finish(outcome, code) ==
    /\ hist' = Append(hist, Summary(outcome, code))
    /\ pc' = "start"
    /\ filtered' = FALSE
    /\ screenshot' = FALSE
    /\ cursor' = 0
    /\ page_no' = 0
    /\ articles_on_page' = << >>
    /\ idx' = 0
    /\ article_text' = << >>
    /\ parts' = << >>
    /\ linkIdx' = 0
    /\ saved' = << >>
    /\ exc' = NoExc
    /\ reads' = << >>
    /\ navs' = {}
    /\ inserted' = 0
    /\ adv' = NoAdv

\* ------------------------------------------------------------------ database_setup.py

\* CREATE TABLE IF NOT EXISTS articles: sqlite3.connect creates the file if
\* there is none, the statement creates the empty table, and an existing table
\* is left as it is
create_database_and_table ==
    /\ pc = "start"
    /\ ~hasTable
    /\ dbExists' = TRUE
    /\ hasTable' = TRUE
    /\ UNCHANGED <<site, attach, env, resp, db, run, argv, pc, hist, browserVars, filtered, screenshot,
                   listVars, itemVars, exc, traceVars>>
    /\ UNCHANGED sideVars

\* ------------------------------------------------------------------ selenium_open_page.py

\* the command lines: the script alone, the script and the start url, and
\* these with the flag that holds the browser open at the end
ARGVS ==
    { <<"selenium_open_page.py">>,
      <<"selenium_open_page.py", BASE_URL>>,
      <<"selenium_open_page.py", BASE_URL, "--keep">> }

\* line 332: hold_open = "--keep" in sys.argv
hold_open(args) == \E i \in 1..Len(args) : args[i] = "--keep"

\* a __main__ that goes on without the url
UsageError_never(args) == FALSE

\* line 327: len(sys.argv) < 2
UsageError(args) == Len(args) < 2

\* line 287: not Path(DATABASE_FILE).exists()
DatabaseMissing(exists) == ~exists

\* sys.exit(1) before build_driver: the process ends as it started
EarlyExit(outcome) ==
    /\ hist' = Append(hist, Summary(outcome, 1))
    /\ UNCHANGED <<pc, browserVars, filtered, screenshot, listVars, itemVars, exc, traceVars>>

\* __main__ and the head of main: the usage check, the check that the database
\* file exists, build_driver
main_entry ==
    /\ pc = "start"
    /\ run < MaxRuns
    /\ run' = run + 1
    /\ \E args \in ARGVS :
        /\ hold_open(args) => env.keep
        /\ argv' = args
        /\ IF UsageError(args) THEN EarlyExit("usage")
           ELSE IF DatabaseMissing(dbExists) THEN EarlyExit("no_database")
           ELSE /\ session' = "open"
                /\ tabs' = 0
                /\ focus' = "parent"
                /\ pc' = "get"
                /\ UNCHANGED <<hist, filtered, screenshot, listVars, itemVars, exc, traceVars>>
    /\ UNCHANGED <<site, attach, env, resp, dbExists, hasTable, db>>
    /\ UNCHANGED sideVars

\* drv.get(url), the wait for readyState, the access-denied check
main_get ==
    /\ pc = "get"
    /\ \E o \in { "ok", "timeout", "denied" } :
        /\ Answers(resp.load, o)
        /\ resp' = [resp EXCEPT !.load = o]
        /\ cursor' = 1
        /\ IF o = "ok" THEN /\ pc' = "filter"
                            /\ exc' = exc
           ELSE IF o = "denied" THEN /\ pc' = "quit"
                                     /\ exc' = exc
           ELSE /\ pc' = "quit"
                /\ exc' = Raised("TimeoutException", "load")
    /\ UNCHANGED <<site, attach, env, dbExists, hasTable, db, run, argv, hist, browserVars, filtered, screenshot,
                   page_no, articles_on_page, idx, itemVars, traceVars>>
    /\ UNCHANGED sideVars

\* click_period: wait for the button and click it; on a timeout save the
\* screenshot and re-raise
click_period ==
    /\ pc = "filter"
    /\ \E o \in { "present", "absent" } :
        /\ Answers(resp.period, o)
        /\ resp' = [resp EXCEPT !.period = o]
        /\ IF o = "present"
           THEN /\ filtered' = TRUE
                /\ page_no' = 1
                /\ pc' = "list"
                /\ UNCHANGED <<screenshot, exc>>
           ELSE /\ screenshot' = TRUE
                /\ exc' = Raised("TimeoutException", "filter")
                /\ pc' = "quit"
                /\ UNCHANGED <<filtered, page_no>>
    /\ UNCHANGED <<site, attach, env, dbExists, hasTable, db, run, argv, hist, browserVars, cursor,
                   articles_on_page, idx, itemVars, traceVars>>
    /\ UNCHANGED sideVars

\* the dict extract_list_items builds from one <li>
ListItem(li) == [date |-> li.date, title |-> li.title, url |-> urljoin(BASE_URL, li.href)]

\* an extract_list_items that hands back an item of the last page when the
\* list does not populate
extract_list_items_never_empty(lis) ==
    IF lis = << >> THEN <<ListItem(CHOOSE li \in Lis : li.title = "t2")>>
    ELSE LET ok == SelectSeq(lis, LAMBDA li : li.h2)
         IN  [i \in 1..Len(ok) |-> ListItem(ok[i])]

\* extract_list_items: the items of the rendered page, without the <li> that
\* lack an element; the empty list when the list never populates
extract_list_items(lis) ==
    LET ok == SelectSeq(lis, LAMBDA li : li.h2)
    IN  [i \in 1..Len(ok) |-> ListItem(ok[i])]

\* the head of main's while loop: read the page, stop on an empty one
main_list ==
    /\ pc = "list"
    /\ articles_on_page' = extract_list_items(PageLis(site, cursor))
    /\ reads' = Append(reads, cursor)
    /\ IF articles_on_page' = << >>
       THEN /\ pc' = "quit"
            /\ idx' = 0
       ELSE /\ pc' = "item"
            /\ idx' = 1
    /\ UNCHANGED <<site, attach, env, resp, dbExists, hasTable, db, run, argv, hist, browserVars, filtered, screenshot,
                   cursor, page_no, itemVars, exc, navs, inserted, adv>>
    /\ UNCHANGED sideVars

art == articles_on_page[idx]

\* scrape_article, lines 223-227: open the article in a new tab, wait until
\* there are two windows, switch to the new one.  The browser may show the tab
\* in time ("opened"), not at all ("blocked"), or show it without the wait
\* having seen two windows before it expired ("late").  These lines are
\* outside the try, so the TimeoutException of the wait skips the finally.
scrape_open ==
    /\ pc = "item"
    /\ \E o \in { "opened", "blocked", "late" } :
        /\ tabs' = IF o = "blocked" THEN tabs ELSE tabs + 1
        /\ IF o = "opened" /\ tabs' + 1 = 2
           THEN /\ focus' = "tab"
                /\ pc' = "load"
                /\ exc' = exc
           ELSE /\ focus' = focus
                /\ pc' = "quit"
                /\ exc' = Raised("TimeoutException", "open")
    /\ article_text' = << >>
    /\ parts' = << >>
    /\ linkIdx' = 0
    /\ saved' = << >>
    /\ UNCHANGED <<site, attach, env, resp, dbExists, hasTable, db, run, argv, hist, session, filtered, screenshot,
                   listVars, traceVars>>
    /\ UNCHANGED sideVars

\* lines 231-237: wait for the detail page, take the body text
scrape_load ==
    /\ pc = "load"
    /\ \E o \in { "ok", "timeout" } :
        /\ Answers(resp.detail[art.url], o)
        /\ resp' = [resp EXCEPT !.detail[art.url] = o]
        /\ IF o = "ok"
           THEN /\ article_text' = BodyText(DetailPage(art.url))
                /\ linkIdx' = 1
                /\ pc' = IF DetailPage(art.url).links = << >> THEN "save" ELSE "links"
                /\ exc' = exc
           ELSE /\ pc' = "close"
                /\ exc' = Raised("TimeoutException", "detail")
                /\ UNCHANGED <<article_text, linkIdx>>
    /\ UNCHANGED <<site, attach, env, dbExists, hasTable, db, run, argv, hist, browserVars, filtered, screenshot,
                   listVars, parts, saved, traceVars>>
    /\ UNCHANGED sideVars

\* a loop that appends a block also for a download that failed
download_and_extract_always(ps, link, o) ==
    Append(ps, Block(link.name, extract_text_from_file(DownloadedFile(link.name))))

\* lines 250-262, the try around one download: on success the block of the
\* file is appended; a failure is printed and leaves the parts as they are
download_and_extract(ps, link, o) ==
    IF o = "ok"
    THEN Append(ps, Block(link.name, extract_text_from_file(DownloadedFile(link.name))))
    ELSE ps

\* lines 241-262, one link: skip it unless the pattern matches; download and
\* extract; a failure is printed and the loop goes on
scrape_link ==
    /\ pc = "links"
    /\ LET link == DetailPage(art.url).links[linkIdx]
       IN  IF ~DL_EXT_PATTERN(link)
           THEN UNCHANGED <<resp, parts>>
           ELSE \E o \in { "ok", "fail" } :
                /\ Answers(resp.dl[link.name], o)
                /\ resp' = [resp EXCEPT !.dl[link.name] = o]
                /\ parts' = download_and_extract(parts, link, o)
    /\ linkIdx' = linkIdx + 1
    /\ pc' = IF linkIdx = Len(DetailPage(art.url).links) THEN "save" ELSE "links"
    /\ UNCHANGED <<site, attach, env, dbExists, hasTable, db, run, argv, hist, browserVars, filtered, screenshot,
                   listVars, article_text, saved, exc, traceVars>>
    /\ UNCHANGED sideVars

\* lines 265-269
full_article_data ==
    [date |-> art.date, title |-> art.title, url |-> art.url,
     article_text |-> article_text,
     attachments_text |-> Join(NL \o NL, [i \in 1..Len(parts) |-> parts[i]])]

\* what the store does with the INSERT of line 196: it runs, or another
\* connection keeps the write lock beyond sqlite3's busy timeout of 5 s
StoreAnswers == { "ok", "locked" }

\* cursor.execute raises sqlite3.OperationalError: "no such table: articles"
\* on a file without the table, "database is locked" on a busy one
StoreRaises(table, o) == ~table \/ o = "locked"

\* lines 265-274: hand the record to add_article_to_db, which catches
\* sqlite3.IntegrityError only (line 205): an OperationalError leaves through
\* its finally and propagates, nothing stored
scrape_save ==
    /\ pc = "save"
    /\ \E o \in StoreAnswers :
        /\ o = "locked" => env.shared
        /\ IF StoreRaises(hasTable, o)
           THEN /\ exc' = Raised("OperationalError", "save")
                /\ UNCHANGED <<db, inserted>>
           ELSE LET r == add_article_to_db(db, full_article_data, run)
                IN  /\ db' = r.rows
                    /\ inserted' = IF r.added THEN inserted + 1 ELSE inserted
                    /\ exc' = exc
    /\ saved' = <<full_article_data>>
    /\ pc' = "close"
    /\ UNCHANGED <<site, attach, env, resp, dbExists, hasTable, run, argv, hist, browserVars, filtered, screenshot,
                   listVars, article_text, parts, linkIdx, reads, navs, adv>>
    /\ UNCHANGED sideVars

\* a finally that does not close the tab
driver_close_skipped(n) == n

\* line 278, driver.close(): the window the driver is on is closed
driver_close(n) == n - 1

\* lines 276-279, the finally: close the tab, switch back; an exception goes on
\* to main, otherwise main's for loop takes the next item
scrape_finally ==
    /\ pc = "close"
    /\ tabs' = driver_close(tabs)
    /\ focus' = "parent"
    /\ IF exc # NoExc
       THEN /\ pc' = "quit"
            /\ idx' = idx
       ELSE IF idx < Len(articles_on_page)
       THEN /\ pc' = "item"
            /\ idx' = idx + 1
       ELSE /\ pc' = "next"
            /\ idx' = idx
    /\ UNCHANGED <<site, attach, env, resp, dbExists, hasTable, db, run, argv, hist, session, filtered, screenshot,
                   cursor, page_no, articles_on_page, itemVars, exc, traceVars>>
    /\ UNCHANGED sideVars

\* what the next-page control of a page can do
NextOutcomes ==
    { "absent", "disabled", "ok", "stale_timeout", "indicator_timeout", "no_indicator" }

\* what the page does against which the call runs: the state of its next
\* control, whether the old list goes stale within the wait after a click, and
\* whether the active page indicator then changes within the wait
NextControl(o) ==
    IF o = "absent" THEN "absent" ELSE IF o = "disabled" THEN "disabled" ELSE "enabled"
HasIndicator(o) == o # "no_indicator"
GoesStale(o) == o \in { "ok", "indicator_timeout" }
IndicatorChanges(o) == o = "ok"

\* what a call of goto_next_page did, saw and returned
AdvResult(o, clicked, stale, changed, ret, raised) ==
    [control |-> NextControl(o), clicked |-> clicked, stale |-> stale,
     changed |-> changed, ret |-> ret, raised |-> raised]

\* a goto_next_page that waits for the staleness of the old list only
goto_next_page_stale_only(o) ==
    IF NextControl(o) # "enabled" THEN AdvResult(o, FALSE, FALSE, FALSE, "False", "none")
    ELSE IF ~HasIndicator(o)
    THEN AdvResult(o, FALSE, FALSE, FALSE, "raise", "NoSuchElementException")
    ELSE IF ~GoesStale(o) THEN AdvResult(o, TRUE, FALSE, FALSE, "False", "none")
    ELSE AdvResult(o, TRUE, TRUE, FALSE, "True", "none")

\* a goto_next_page without the except TimeoutException
goto_next_page_no_except(o) ==
    IF NextControl(o) # "enabled" THEN AdvResult(o, FALSE, FALSE, FALSE, "False", "none")
    ELSE IF ~HasIndicator(o)
    THEN AdvResult(o, FALSE, FALSE, FALSE, "raise", "NoSuchElementException")
    ELSE IF ~GoesStale(o) THEN AdvResult(o, TRUE, FALSE, FALSE, "raise", "TimeoutException")
    ELSE IF ~IndicatorChanges(o) THEN AdvResult(o, TRUE, TRUE, FALSE, "raise", "TimeoutException")
    ELSE AdvResult(o, TRUE, TRUE, TRUE, "True", "none")

\* a goto_next_page that reports a new page where the control is absent or
\* disabled
goto_next_page_ignores_end(o) ==
    IF NextControl(o) # "enabled" THEN AdvResult(o, FALSE, FALSE, FALSE, "True", "none")
    ELSE IF ~HasIndicator(o)
    THEN AdvResult(o, FALSE, FALSE, FALSE, "raise", "NoSuchElementException")
    ELSE IF ~GoesStale(o) THEN AdvResult(o, TRUE, FALSE, FALSE, "False", "none")
    ELSE IF ~IndicatorChanges(o) THEN AdvResult(o, TRUE, TRUE, FALSE, "False", "none")
    ELSE AdvResult(o, TRUE, TRUE, TRUE, "True", "none")

\* goto_next_page, lines 135-152: False when the control is absent (136-138)
\* or disabled (139-140); the lookup of the list and of the active page
\* indicator (141-142), which raises when there is none; the click (143); the
\* wait for the old list to go stale (146) and for the indicator to differ from
\* its value before the click (147-149), True after both (150); False when
\* either wait times out (151-152)
goto_next_page_call(o) ==
    IF NextControl(o) # "enabled" THEN AdvResult(o, FALSE, FALSE, FALSE, "False", "none")
    ELSE IF ~HasIndicator(o)
    THEN AdvResult(o, FALSE, FALSE, FALSE, "raise", "NoSuchElementException")
    ELSE IF ~GoesStale(o) THEN AdvResult(o, TRUE, FALSE, FALSE, "False", "none")
    ELSE IF ~IndicatorChanges(o) THEN AdvResult(o, TRUE, TRUE, FALSE, "False", "none")
    ELSE AdvResult(o, TRUE, TRUE, TRUE, "True", "none")

\* a loop that goes on whatever goto_next_page returned
loop_continues_always(ret) == ret # "raise"

\* line 316: if not goto_next_page(drv): break
loop_continues(ret) == ret = "True"

\* lines 315-317: page_no += 1 and the call of goto_next_page against the
\* page shown; the site moves the page indicator when a click takes effect
goto_next_page ==
    /\ pc = "next"
    /\ page_no <= MaxPageNo
    /\ page_no' = page_no + 1
    /\ \E o \in NextOutcomes :
        /\ Answers(resp.next[cursor], o)
        /\ o = "ok" => cursor <= NumPages(site)
        /\ resp' = [resp EXCEPT !.next[cursor] = o]
        /\ LET r == goto_next_page_call(o)
           IN  /\ adv' = [page |-> cursor] @@ r
               /\ navs' = IF r.clicked THEN navs \cup { cursor } ELSE navs
               /\ cursor' = IF r.clicked /\ IndicatorChanges(o) THEN cursor + 1 ELSE cursor
               /\ pc' = IF loop_continues(r.ret) THEN "list" ELSE "quit"
               /\ exc' = IF r.ret = "raise" THEN Raised(r.raised, "advance") ELSE exc
    /\ UNCHANGED <<site, attach, env, dbExists, hasTable, db, run, argv, hist, browserVars, filtered, screenshot,
                   articles_on_page, idx, itemVars, reads, inserted>>
    /\ UNCHANGED sideVars

\* a finally that leaves the browser session as it is
drv_quit_skipped(s) == s

\* line 323: drv.quit() ends the session
drv_quit(s) == "quit"

\* the loop has ended without an exception, "complete" is printed (line 319)
\* and keep_open makes main wait at input() (lines 320-321)
AwaitsOperator ==
    /\ pc = "quit"
    /\ exc = NoExc
    /\ filtered
    /\ hold_open(argv)

\* lines 320-321, input(): the operator presses Enter, or standard input is
\* at its end and input() raises EOFError
main_keep ==
    /\ AwaitsOperator
    /\ \E o \in { "enter", "eof" } :
        exc' = IF o = "eof" THEN Raised("EOFError", "keep") ELSE exc
    /\ pc' = "finally"
    /\ UNCHANGED <<site, attach, env, resp, dbExists, hasTable, db, run, argv, hist, browserVars, filtered,
                   screenshot, listVars, itemVars, traceVars>>
    /\ UNCHANGED sideVars

\* the end of main: "complete" was printed unless an exception is propagating
\* or main returned early; the finally quits the browser
main_finally ==
    /\ pc = "finally" \/ (pc = "quit" /\ ~AwaitsOperator)
    /\ session' = drv_quit(session)
    /\ tabs' = 0
    /\ focus' = "none"
    /\ IF exc # NoExc THEN Finish("exception", 1)
       ELSE IF ~filtered THEN Finish("denied", 0)
       ELSE Finish("completed", 0)
    /\ UNCHANGED <<site, attach, env, resp, dbExists, hasTable, db, run, argv>>
    /\ UNCHANGED sideVars

Next ==
    \/ create_database_and_table
    \/ main_entry
    \/ main_get
    \/ click_period
    \/ main_list
    \/ scrape_open
    \/ scrape_load
    \/ scrape_link
    \/ scrape_save
    \/ scrape_finally
    \/ goto_next_page
    \/ main_finally

Spec == Init /\ [][Next]_vars

\* the steps of an execution that has created its browser session, but for
\* the answer to input(). The script is one sequential thread and each of
\* these steps is a blocking call that returns: a WebDriverWait ends after
\* WAIT_SECS at the latest, requests.get has timeout=45, the insert waits for
\* a held lock no longer than sqlite3's busy timeout. So a step that is
\* enabled is taken; starting an execution and answering input() are up to
\* the operator.
RunStep ==
    \/ main_get
    \/ click_period
    \/ main_list
    \/ scrape_open
    \/ scrape_load
    \/ scrape_link
    \/ scrape_save
    \/ scrape_finally
    \/ goto_next_page
    \/ main_finally

\* one execution, the last that MaxRuns allows, is about to start as a fresh
\* process: any listing, any use, and the store as earlier use left it
InitLive ==
    /\ site \in Sites
    /\ SiteContent
    /\ AnyUse
    /\ StoreStates
    /\ resp = NoResp
    /\ run = MaxRuns - 1
    /\ pc = "start"
    /\ hist = << >>
    /\ session = "none"
    /\ tabs = 0
    /\ focus = "none"
    /\ filtered = FALSE
    /\ screenshot = FALSE
    /\ cursor = 0
    /\ page_no = 0
    /\ articles_on_page = << >>
    /\ idx = 0
    /\ article_text = << >>
    /\ parts = << >>
    /\ linkIdx = 0
    /\ saved = << >>
    /\ exc = NoExc
    /\ reads = << >>
    /\ navs = {}
    /\ inserted = 0
    /\ argv = << >>
    /\ adv = NoAdv
    /\ SideIdle

NextLive ==
    \/ main_entry
    \/ main_keep
    \/ RunStep

SpecLive == InitLive /\ [][NextLive]_vars /\ WF_vars(RunStep)

\* ------------------------------------------------------------------ one harvest, its attachments varied

\* the elements of a set of numbers in increasing order
SortedSeq(S) ==
    [j \in 1..Cardinality(S) |-> CHOOSE x \in S : Cardinality({ y \in S : y < x }) = j - 1]

\* the links a detail page carries: some of the ExtLinks, in document order
LinkChoices == { S \in SUBSET (1..Len(LinkExts)) : Cardinality(S) <= MaxLinks }
LinksOf(S) == [j \in 1..Cardinality(S) |-> ExtLink(SortedSeq(S)[j])]

\* a listing of one page with one item, whose detail page carries the links
\* chosen and behind which some of the files the extractor opens are corrupt;
\* the store is provisioned and empty
InitHarvest ==
    /\ site = [flat |-> <<CHOOSE li \in Lis : li.title = "t1">>, cuts |-> {}]
    /\ \E S \in LinkChoices :
          \E bad \in SUBSET { ExtLink(i).name : i \in { j \in S : LinkExts[j] \in DecodedSuffixes } } :
              attach = [links |-> LinksOf(S), bad |-> bad]
    /\ SoleUnattended
    /\ dbExists = TRUE
    /\ hasTable = TRUE
    /\ db = << >>
    /\ ScraperIdle
    /\ SideIdle

NextHarvest ==
    \/ main_entry
    \/ main_get
    \/ click_period
    \/ main_list
    \/ scrape_open
    \/ scrape_load
    \/ scrape_link
    \/ scrape_save
    \/ scrape_finally
    \/ goto_next_page
    \/ main_finally

SpecHarvest == InitHarvest /\ [][NextHarvest]_vars

\* ------------------------------------------------------------------ concurrent inserts

\* a provisioned store that several connections use, and no scraper execution
\* in progress
StoreOnly ==
    /\ site = [flat |-> << >>, cuts |-> {}]
    /\ SiteContent
    /\ env = [keep |-> FALSE, shared |-> TRUE]
    /\ dbExists = TRUE
    /\ hasTable = TRUE
    /\ db \in InitialLedgers
    /\ ScraperIdle

\* the records callers hand to add_article_to_db
CallData ==
    { [date |-> li.date, title |-> li.title, url |-> urljoin(BASE_URL, li.href),
       article_text |-> <<"body">>, attachments_text |-> << >>] : li \in Lis }

\* lines 188-194: a caller connects, with its record; sqlite3.connect creates
\* the file if there is none
c_connect(p) ==
    /\ cpc[p] = "idle"
    /\ \E d \in CallData : cdata' = [cdata EXCEPT ![p] = <<d>>]
    /\ cpc' = [cpc EXCEPT ![p] = "execute"]
    /\ dbExists' = TRUE
    /\ UNCHANGED <<scraperVars, hasTable, db, cret, lock, txn, anaVars>>

\* sqlite3.connect(DATABASE_FILE) of line 188 leaves the busy timeout at its
\* default of 5 s: a cursor.execute that finds the write lock held by another
\* connection, and held for longer than that, raises sqlite3.OperationalError
\* ("database is locked")
BusyTimeout(holder, p) == holder # 0 /\ holder # p

\* lines 195-202 and 205-207: cursor.execute opens a write transaction, for
\* which sqlite gives the write lock to one connection at a time, and runs the
\* INSERT against the committed rows; on sqlite3.IntegrityError the function
\* is about to return False. A caller that meets the lock held either gets it
\* once the holder has let go, or its execute ends by the busy timeout: the
\* OperationalError is not caught at line 205 and leaves the function through
\* the finally; so does the one of a file that has no articles table
c_execute(p) ==
    /\ cpc[p] = "execute"
    /\ IF ~hasTable \/ BusyTimeout(lock, p)
       THEN /\ cpc' = [cpc EXCEPT ![p] = "finally"]
            /\ cret' = [cret EXCEPT ![p] = "OperationalError"]
            /\ UNCHANGED <<lock, txn>>
       ELSE /\ lock' = p
            /\ LET r == add_article_to_db(db, cdata[p][1], 1)
               IN  IF r.added
                   THEN /\ txn' = r.rows
                        /\ cpc' = [cpc EXCEPT ![p] = "commit"]
                        /\ cret' = cret
                   ELSE /\ txn' = txn
                        /\ cpc' = [cpc EXCEPT ![p] = "finally"]
                        /\ cret' = [cret EXCEPT ![p] = "False"]
    /\ UNCHANGED <<scraperVars, dbExists, hasTable, db, cdata, anaVars>>

\* lines 203-204: conn.commit() makes the row visible and ends the
\* transaction; the function is about to return True
c_commit(p) ==
    /\ cpc[p] = "commit"
    /\ db' = txn
    /\ txn' = << >>
    /\ lock' = 0
    /\ cret' = [cret EXCEPT ![p] = "True"]
    /\ cpc' = [cpc EXCEPT ![p] = "finally"]
    /\ UNCHANGED <<scraperVars, dbExists, hasTable, cdata, anaVars>>

\* lines 208-209, the finally: conn.close() ends what is left of the transaction
c_close(p) ==
    /\ cpc[p] = "finally"
    /\ lock' = IF lock = p THEN 0 ELSE lock
    /\ cpc' = [cpc EXCEPT ![p] = "done"]
    /\ UNCHANGED <<scraperVars, dbExists, hasTable, db, cdata, cret, txn, anaVars>>

InitConc == StoreOnly /\ SideIdle

NextConc ==
    \E p \in Procs :
        \/ c_connect(p)
        \/ c_execute(p)
        \/ c_commit(p)
        \/ c_close(p)

SpecConc == InitConc /\ [][NextConc]_vars

\* ------------------------------------------------------------------ analysis.py

\* the columns analysis.py uses that database_setup.py does not create (lines
\* 140-142 and 150: "ALTER TABLE articles ADD COLUMN ...")
ExtraColumns == { "company_name", "llm_full_response" }

\* json.dumps of a value: None becomes null
Dumps(x) == IF x = NULL THEN "null" ELSE "json:" \o x

\* the parsed responses handed to the update; a key the response lacks is NULL
\* (dict.get gives None)
AnalysisJsons ==
    { [raw |-> "J1", evaluation |-> "Bullish", reasoning |-> "r1", confidence |-> "8"],
      [raw |-> "J2", evaluation |-> "Bearish", reasoning |-> "r2", confidence |-> "3"],
      [raw |-> "J3", evaluation |-> NULL, reasoning |-> NULL, confidence |-> NULL] }

\* the UPDATE of update_article_analysis_advanced: the row with this id gets the
\* evaluation, the reasoning, the confidence and the full response, and becomes
\* processed; the WHERE clause names the id only
UpdateRows(rows, article_id, analysis_json) ==
    [i \in 1..Len(rows) |->
        IF rows[i].id = article_id
        THEN [rows[i] EXCEPT !.llm_evaluation = analysis_json.evaluation,
                             !.llm_reasoning = Dumps(analysis_json.reasoning),
                             !.llm_confidence = analysis_json.confidence,
                             !.processing_status = "processed",
                             !.llm_full_response = Dumps(analysis_json.raw)]
        ELSE rows[i]]

\* the calls of add_article_to_db that run beside analysis.py
Scrapers == 1..NumScrapers

\* the connection of analysis.py, as a holder of the write lock
Analyst == NumProcs + 1

\* update_article_analysis_advanced(conn, article_id, analysis_json), lines
\* 116-135: conn.execute inside "with conn". Without the table, or on a table
\* without the llm_full_response column, the statement fails with
\* sqlite3.Error; so it does, by the busy timeout, when another connection
\* holds the write lock. Line 137 catches the error and logs it, and no row is
\* written. Otherwise the UPDATE opens a write transaction, which holds the
\* lock, and writes the row with this id, if there is one, in it
update_article_analysis_advanced ==
    /\ dbExists
    /\ upc = "idle"
    /\ nupd < MaxUpdates
    /\ nupd' = nupd + 1
    /\ \E article_id \in 1..(Len(db) + 1), analysis_json \in AnalysisJsons :
        IF ~hasTable \/ "llm_full_response" \notin columns \/ BusyTimeout(lock, Analyst)
        THEN /\ ures' = "Error"
             /\ UNCHANGED <<lock, txn, upc>>
        ELSE /\ lock' = Analyst
             /\ txn' = UpdateRows(db, article_id, analysis_json)
             /\ upc' = "commit"
             /\ ures' = ures
    /\ UNCHANGED <<scraperVars, dbExists, hasTable, db, cpc, cdata, cret, columns, alog>>

\* line 117, the exit of "with conn", and line 136: the commit makes the
\* written row visible and lets go of the lock; the success is logged
update_commit ==
    /\ upc = "commit"
    /\ db' = txn
    /\ txn' = << >>
    /\ lock' = 0
    /\ upc' = "idle"
    /\ ures' = "updated"
    /\ UNCHANGED <<scraperVars, dbExists, hasTable, cpc, cdata, cret, columns, alog, nupd>>

\* the rows main selects
PendingRows(rows) == SelectSeq(rows, LAMBDA r : r.processing_status = "pending")

\* main of analysis.py up to its first write: get_db_connection connects,
\* which creates the file if there is none; the SELECT names company_name and
\* fails without the table or on a table without that column; with no pending
\* row main returns; otherwise the loop calls row.get on the first sqlite3.Row,
\* which has no such method
analysis_main ==
    /\ Len(alog) < MaxAnalyses
    /\ dbExists' = TRUE
    /\ alog' = Append(alog,
                 IF ~hasTable \/ "company_name" \notin columns THEN "OperationalError"
                 ELSE IF PendingRows(db) = << >> THEN "no_pending"
                 ELSE "AttributeError")
    /\ UNCHANGED <<scraperVars, hasTable, db, concVars, columns, nupd, upc, ures>>

InitAnalysis ==
    /\ site = [flat |-> << >>, cuts |-> {}]
    /\ SiteContent
    /\ env = [keep |-> FALSE, shared |-> TRUE]
    /\ StoreStates
    /\ ScraperIdle
    /\ cpc = [p \in Procs |-> "idle"]
    /\ cdata = [p \in Procs |-> << >>]
    /\ cret = [p \in Procs |-> "none"]
    /\ lock = 0
    /\ txn = << >>
    /\ columns \in (IF hasTable THEN SUBSET ExtraColumns ELSE { {} })
    /\ alog = << >>
    /\ nupd = 0
    /\ upc = "idle"
    /\ ures = "none"

\* analysis.py beside the scraper's writes to the table, the calls of
\* add_article_to_db (line 271), each on a connection of its own
NextAnalysis ==
    \/ \E p \in Scrapers :
          \/ c_connect(p)
          \/ c_execute(p)
          \/ c_commit(p)
          \/ c_close(p)
    \/ analysis_main
    \/ update_article_analysis_advanced
    \/ update_commit

SpecAnalysis == InitAnalysis /\ [][NextAnalysis]_vars

\* ------------------------------------------------------------------ claims

\* C1: once an execution of the scraper has run to completion, every later
\* execution against the same site adds no row: each of its inserts is a
\* duplicate, and the table after it is the table after the first.
C1_SecondRunInsertsNothing ==
    \A k \in 1..Len(hist) :
        hist[k].outcome = "completed" =>
            /\ \A j \in (k + 1)..Len(hist) :
                  /\ hist[j].inserted = 0
                  /\ hist[j].dbAfter = hist[k].dbAfter
            /\ inserted = 0
            /\ db = hist[k].dbAfter

\* two completed executions, the first of which added rows and the second of
\* which read the listing again
C1_Witness ==
    /\ Len(hist) = 2
    /\ hist[1].outcome = "completed"
    /\ hist[2].outcome = "completed"
    /\ hist[1].inserted > 0
    /\ hist[2].reads = hist[1].reads
    /\ Len(hist[2].reads) > 0

\* C2: no two rows of the articles table have the same url.
C2_UrlUnique ==
    \A i, j \in 1..Len(db) : db[i].url = db[j].url => i = j

\* the second item of a page has the url of the first, and its record was
\* handed to add_article_to_db
C2_Witness ==
    /\ pc = "close"
    /\ idx = 2
    /\ articles_on_page[1].url = articles_on_page[2].url
    /\ saved # << >>
    /\ Len(db) = 1

\* C3 (as claimed): a detail page that does not load within the wait makes
\* only that item be skipped; no execution ends by that exception.
C3_ItemFailureIsolated ==
    \A k \in 1..Len(hist) : hist[k].at # "detail"

\* C4 (as claimed): whenever control is outside scrape_article, no tab opened
\* for an item is left and the driver is on the listing window.
C4_ContextsClosed ==
    (session = "open" /\ pc \notin { "load", "links", "save", "close" })
        => (tabs = 0 /\ focus = "parent")

\* Beside C4: on the exits through the try (success, detail-page timeout) the
\* finally has closed the tab and switched back.
C4_ClosedOnExitsThroughTry ==
    (session = "open" /\ pc \notin { "load", "links", "save", "close" } /\ exc.at # "open")
        => (tabs = 0 /\ focus = "parent")

\* C5 (as claimed): the harvester runs only for items whose url is absent from
\* the table when the item is reached.
C5_NoDuplicateWork ==
    pc \in { "load", "links", "save" } => art.url \notin UrlsOf(db)

\* the site has N >= 1 pages, each with items, and no response given so far
\* departs from: next control disabled on page N, every transition succeeds
RegularSite ==
    /\ NumPages(site) >= 1
    /\ \A p \in 1..NumPages(site) :
          /\ extract_list_items(PageLis(site, p)) # << >>
          /\ resp.next[p] \in { Unknown, IF p = NumPages(site) THEN "disabled" ELSE "ok" }

\* C6 (as claimed): against such a site an execution that got to the listing
\* reads pages 1..N, each once and in order, and never clicks next on page N.
C6_ReadsEveryPageOnce ==
    \A k \in 1..Len(hist) :
        (hist[k].filtered /\ RegularSite) =>
            /\ hist[k].reads = [p \in 1..NumPages(site) |-> p]
            /\ NumPages(site) \notin hist[k].navs

\* Beside C6: when no harvest of the execution raised, the pages 1..N are read
\* once each and in order.
C6_ReadsEveryPageOnceIfNoHarvestRaises ==
    \A k \in 1..Len(hist) :
        (hist[k].filtered /\ RegularSite /\ hist[k].at \notin { "open", "detail" }) =>
            /\ hist[k].reads = [p \in 1..NumPages(site) |-> p]
            /\ NumPages(site) \notin hist[k].navs

\* the blocks of the links of a detail page that match the pattern and whose
\* download succeeded, in link order
DownloadedBlocks(url) ==
    LET got == SelectSeq(DetailPage(url).links,
                         LAMBDA l : DL_EXT_PATTERN(l) /\ resp.dl[l.name] = "ok")
    IN  [i \in 1..Len(got) |-> Block(got[i].name, extract_text_from_file(DownloadedFile(got[i].name)))]

\* C7: a harvest whose detail page loaded hands a record to add_article_to_db
\* whatever the downloads did; its attachments_text is the blocks of the
\* successful downloads in link order, joined by blank lines: nothing for a
\* failed download, the empty text when none succeeded.
C7_AttachmentIsolation ==
    pc = "close" =>
        /\ exc.at # "detail" => saved # << >>
        /\ saved # << >> =>
              /\ saved[1].attachments_text = Join(NL \o NL, DownloadedBlocks(art.url))
              /\ (\A f \in FileNames : resp.dl[f] # "ok") => saved[1].attachments_text = << >>

\* a harvest of the page with two attachments, the first download failed and
\* the second succeeded
C7_Witness ==
    /\ pc = "close"
    /\ saved # << >>
    /\ art.url.path = "/n/1"
    /\ resp.dl["a.pdf"] = "fail"
    /\ resp.dl["b.docx"] = "ok"
    /\ saved[1].attachments_text # << >>

\* C10 (as claimed): an execution that ends by a timeout of the initial load
\* or of the filter button has saved the screenshot, read no listing page and
\* added no row.
C10_FatalHasSnapshot ==
    \A k \in 1..Len(hist) :
        hist[k].at \in { "load", "filter" } =>
            /\ hist[k].screenshot
            /\ hist[k].reads = << >>
            /\ hist[k].inserted = 0

\* a url that was in the table before any caller ran
PreExisting(u) == \E i \in 1..Len(db) : db[i].url = u /\ db[i].scraped_at = 0

\* the callers that handed in url u, and those of them that got True
Callers(u) == { p \in Procs : cdata[p] # << >> /\ cdata[p][1].url = u }
Inserters(u) == { p \in Callers(u) : cret[p] = "True" }

\* C8 (as claimed): of the calls of add_article_to_db with one url, under
\* every interleaving, at most one returns True; once all have ended exactly
\* one has (none if the url was there before) and every other returned False;
\* the rows of an open transaction are not in the table and no url is there
\* twice.
C8_ExactlyOneInserted ==
    /\ \A u \in URLs :
          /\ Cardinality(Inserters(u)) <= (IF PreExisting(u) THEN 0 ELSE 1)
          /\ (\A p \in Callers(u) : cpc[p] = "done") /\ Callers(u) # {} =>
                /\ Cardinality({ i \in 1..Len(db) : db[i].url = u }) = 1
                /\ PreExisting(u) => Inserters(u) = {}
                /\ ~PreExisting(u) => Cardinality(Inserters(u)) = 1
                /\ \A p \in Callers(u) \ Inserters(u) : cret[p] = "False"
    /\ \A p \in Procs : cpc[p] = "commit" => cdata[p][1].url \notin UrlsOf(db)
    /\ \A i, j \in 1..Len(db) : db[i].url = db[j].url => i = j

\* Beside C8: what holds of it. At most one call per url returns True, and
\* none for a url that was there; a call that returned True has its row in the
\* table, one that returned False found the url there; a call ended by the
\* busy timeout wrote nothing; no row of an open transaction is visible and no
\* url is there twice.
C8_AtMostOneInserted ==
    /\ \A u \in URLs :
          /\ Cardinality(Inserters(u)) <= (IF PreExisting(u) THEN 0 ELSE 1)
          /\ \A p \in Callers(u) :
                /\ cret[p] \in { "True", "False" } => u \in UrlsOf(db)
                /\ cpc[p] = "done" => cret[p] \in { "True", "False", "OperationalError" }
          /\ Cardinality({ i \in 1..Len(db) : db[i].url = u }) <= 1
          /\ (u \in UrlsOf(db) /\ ~PreExisting(u)) => Cardinality(Inserters(u)) = 1
    /\ \A p \in Procs : cpc[p] = "commit" => cdata[p][1].url \notin UrlsOf(db)

\* Beside C8: two calls with one url have ended, one returned True, and the
\* other neither True nor False: its execute met the lock held
C8_BusyWitness ==
    \E p, q \in Procs :
        /\ p # q
        /\ cdata[p] # << >> /\ cdata[q] # << >>
        /\ cdata[p][1].url = cdata[q][1].url
        /\ cret[p] = "True"
        /\ cret[q] = "OperationalError"
        /\ cpc[p] = "done" /\ cpc[q] = "done"

\* two callers with one url were both connected before either had inserted,
\* and one got True, the other False
C8_Witness ==
    \E p, q \in Procs :
        /\ p # q
        /\ cdata[p] # << >> /\ cdata[q] # << >>
        /\ cdata[p][1].url = cdata[q][1].url
        /\ cdata[p][1].title # cdata[q][1].title
        /\ cret[p] = "True"
        /\ cret[q] = "False"
        /\ cpc[p] = "done" /\ cpc[q] = "done"

\* C9 (as claimed): a row is created pending; its status only ever goes from
\* pending to processed; a processed row is never written again.
C9_ProcessedOnce ==
    [][ /\ Len(db') >= Len(db)
        /\ \A i \in 1..Len(db) :
              /\ db[i].processing_status = "processed" => db'[i] = db[i]
              /\ db'[i].processing_status # db[i].processing_status =>
                    (db[i].processing_status = "pending" /\ db'[i].processing_status = "processed")
        /\ \A i \in (Len(db) + 1)..Len(db') : db'[i].processing_status = "pending" ]_vars

\* C11 (as claimed): an execution started without the url argument, or on a
\* store that was not provisioned (no articles table), ends at once with a
\* non-zero exit code: no browser session is created, and the store (the file
\* and the table) is as before.
C11_PreconditionsExit ==
    [][ (run' = run + 1 /\ (Len(argv') < 2 \/ ~hasTable)) =>
            /\ Len(hist') = Len(hist) + 1
            /\ hist'[Len(hist')].exit # 0
            /\ hist'[Len(hist')].reads = << >>
            /\ pc' = "start"
            /\ session' = session /\ tabs' = tabs /\ focus' = focus
            /\ session' # "open"
            /\ dbExists' = dbExists /\ hasTable' = hasTable
            /\ db' = db ]_vars

\* Beside C11: what lines 287-290 and 327-329 do give. An execution started
\* without the url argument, or while the database file does not exist, ends
\* at once with a non-zero exit code, no session created and the store as
\* before.
C11_MissingFileExit ==
    [][ (run' = run + 1 /\ (Len(argv') < 2 \/ ~dbExists)) =>
            /\ Len(hist') = Len(hist) + 1
            /\ hist'[Len(hist')].exit # 0
            /\ hist'[Len(hist')].reads = << >>
            /\ pc' = "start"
            /\ session' = session /\ tabs' = tabs /\ focus' = focus
            /\ session' # "open"
            /\ dbExists' = dbExists /\ hasTable' = hasTable
            /\ db' = db ]_vars

\* Beside C11: on a file without the table every execution that is given the
\* url ends with a non-zero exit code and nothing stored, but only after it
\* has created a session, unless the site ended it before the first insert
C11_NoTableEndsLate ==
    \A k \in 1..Len(hist) :
        (hist[k].outcome = "exception" /\ hist[k].at = "save") =>
            /\ hist[k].exit = 1
            /\ hist[k].inserted = 0
            /\ hist[k].reads # << >>

\* one execution ended for the missing database file, the next for the
\* missing url, and no browser session was ever created
C11_Witness ==
    /\ Len(hist) = 2
    /\ hist[1].outcome = "no_database" /\ hist[1].exit = 1
    /\ hist[2].outcome = "usage" /\ hist[2].exit = 1
    /\ Len(argv) = 1
    /\ ~dbExists
    /\ session = "none"

\* Beside C11: an execution on a file without the table has read a page,
\* harvested an item and ended by the OperationalError of the insert
C11_NoTableWitness ==
    /\ ~hasTable
    /\ hist # << >>
    /\ hist[Len(hist)].outcome = "exception"
    /\ hist[Len(hist)].at = "save"

\* the links of a detail page that match the pattern and whose download
\* succeeded, in link order
Downloaded(url) ==
    SelectSeq(DetailPage(url).links, LAMBDA l : DL_EXT_PATTERN(l) /\ resp.dl[l.name] = "ok")

\* the block of a file whose decoding failed
PlaceholderBlock(name) ==
    <<"--- CONTENT FROM ", name, " ---", NL,
      "[Error extracting text from ", name, ": ", "decode error", "]">>

\* C12: a file whose decoding fails costs nothing but its own text: no
\* exception leaves the loop over the links, every downloaded file has its
\* block, the block of a file that failed to decode is the placeholder with
\* the file's name and the error, the blocks of the other files are their
\* text, and the record is handed to the store with all of them.
C12_ExtractionFailuresAreData ==
    /\ pc \in { "links", "save" } => exc = NoExc
    /\ (pc = "close" /\ exc = NoExc) =>
          LET got == Downloaded(art.url)
          IN  /\ Len(parts) = Len(got)
              /\ \A i \in 1..Len(got) :
                    LET file == DownloadedFile(got[i].name)
                    IN  IF file.corrupt /\ file.suffix \in DecodedSuffixes
                        THEN parts[i] = PlaceholderBlock(file.name)
                        ELSE parts[i] = Block(file.name, extract_text_from_file(FileOf(file.name)))
              /\ saved # << >>
              /\ saved[1].attachments_text = Join(NL \o NL, parts)
              /\ \E r \in 1..Len(db) :
                    db[r].url = art.url /\ db[r].attachments_text = saved[1].attachments_text

\* a page with two attachments, both downloaded: the first does not decode,
\* the second does, and the record with both blocks is in the table
C12_Witness ==
    /\ pc = "close"
    /\ exc = NoExc
    /\ Len(DetailPage(art.url).links) = 2
    /\ Len(Downloaded(art.url)) = 2
    /\ DownloadedFile(DetailPage(art.url).links[1].name).corrupt
    /\ DownloadedFile(DetailPage(art.url).links[1].name).suffix = ".pdf"
    /\ ~DownloadedFile(DetailPage(art.url).links[2].name).corrupt
    /\ DownloadedFile(DetailPage(art.url).links[2].name).suffix = ".xlsx"
    /\ Len(db) = 1
    /\ db[1].attachments_text =
          PlaceholderBlock("f.pdf") \o <<NL \o NL>>
              \o <<"--- CONTENT FROM ", "f.xlsx", " ---", NL, "c1", " ", "c2", " ", NL, NL>>

\* C17 (as claimed): every file downloaded for a link the pattern matched
\* has a suffix extract_text_from_file has a branch for.
C17_EveryAttachmentDecoded ==
    pc = "close" =>
        \A i \in 1..Len(Downloaded(art.url)) :
            DownloadedFile(Downloaded(art.url)[i].name).suffix \in DecodedSuffixes

\* Beside C17: the pattern matches the eight endings in either case, and the
\* extractor decodes three of them, in lower case only.
C17_PatternWiderThanDecoders ==
    /\ \A i \in 1..Len(LinkExts) :
          DL_EXT_PATTERN(ExtLink(i)) <=> LinkExts[i] # ".html"
    /\ \A i \in 1..Len(LinkExts) :
          extract_text_from_file(FileOf(ExtLink(i).name)) # << >>
              <=> LinkExts[i] \in { ".pdf", ".docx", ".xlsx" }

\* C13: a call of goto_next_page against an absent or disabled control
\* returns False without a click, and the page shown, its indicator and the
\* loaded list are as before; a call returns True only after a click, with the
\* old list seen stale and the indicator seen changed, and main reads the next
\* page only then.
C13_AdvanceDiscipline ==
    [][ pc = "next" =>
            /\ adv'.page = cursor
            /\ adv'.control \in { "absent", "disabled" } =>
                  /\ adv'.ret = "False"
                  /\ ~adv'.clicked
                  /\ cursor' = cursor
                  /\ navs' = navs
                  /\ articles_on_page' = articles_on_page
            /\ adv'.ret = "True" =>
                  /\ adv'.clicked /\ adv'.stale /\ adv'.changed
                  /\ cursor \in navs'
                  /\ cursor' # cursor
            /\ pc' = "list" => adv'.ret = "True" ]_vars

\* an execution whose first call returned True and whose second call, on
\* page 2, found the control disabled
C13_Witness ==
    /\ Len(hist) = 1
    /\ hist[1].reads = <<1, 2>>
    /\ hist[1].navs = { 1 }
    /\ hist[1].adv.page = 2
    /\ hist[1].adv.control = "disabled"
    /\ hist[1].adv.ret = "False"

\* the call clicked and one of its two waits timed out
AdvTimedOut(a) == a.clicked /\ ~(a.stale /\ a.changed)

\* C14: when a wait after the click times out, goto_next_page returns False
\* and raises nothing; main leaves the loop: the execution ends as completed
\* with exit code 0, reads no page after the one the click was on, and the rows
\* it added are in the table at its end and ever after.
C14_TimeoutEndsPagination ==
    /\ AdvTimedOut(adv) =>
          /\ adv.ret = "False"
          /\ pc = "quit"
          /\ exc = NoExc
          /\ reads[Len(reads)] = adv.page
    /\ \A k \in 1..Len(hist) :
          AdvTimedOut(hist[k].adv) =>
              /\ hist[k].adv.ret = "False"
              /\ hist[k].outcome = "completed"
              /\ hist[k].exit = 0
              /\ hist[k].reads = [p \in 1..hist[k].adv.page |-> p]
              /\ Cardinality({ i \in 1..Len(hist[k].dbAfter) : hist[k].dbAfter[i].scraped_at = k })
                    = hist[k].inserted
              /\ Len(db) >= Len(hist[k].dbAfter)
              /\ \A i \in 1..Len(hist[k].dbAfter) : db[i] = hist[k].dbAfter[i]

\* an execution that added a row from page 1, advanced, read page 2, and on
\* page 2 clicked next and saw the list go stale but the indicator not change
C14_Witness ==
    /\ Len(hist) = 1
    /\ hist[1].adv.page = 2
    /\ hist[1].adv.clicked /\ hist[1].adv.stale /\ ~hist[1].adv.changed
    /\ hist[1].inserted >= 1
    /\ hist[1].outcome = "completed"

\* the page read last
LastRead(rs) == rs[Len(rs)]

\* C15: when the list of the page being read never populates,
\* extract_list_items returns the empty list and raises nothing; main stops:
\* no item of that page is harvested, goto_next_page is not called on it, and
\* the execution ends as completed with exit code 0.
C15_EmptyListingEnds ==
    /\ (reads # << >> /\ PageLis(site, LastRead(reads)) = << >>) =>
          /\ articles_on_page = << >>
          /\ pc = "quit"
          /\ exc = NoExc
          /\ tabs = 0
          /\ adv.page # LastRead(reads)
          /\ LastRead(reads) \notin navs
    /\ \A k \in 1..Len(hist) :
          (hist[k].reads # << >> /\ PageLis(site, LastRead(hist[k].reads)) = << >>) =>
              /\ hist[k].outcome = "completed"
              /\ hist[k].exit = 0
              /\ hist[k].adv.page # LastRead(hist[k].reads)
              /\ LastRead(hist[k].reads) \notin hist[k].navs

\* an execution that harvested page 1, advanced, and found no list on page 2
C15_Witness ==
    /\ Len(hist) = 1
    /\ hist[1].reads = <<1, 2>>
    /\ PageLis(site, 2) = << >>
    /\ hist[1].inserted >= 1
    /\ hist[1].outcome = "completed"
    /\ hist[1].adv.page = 1

\* the positions of main inside the while loop
InLoop == { "list", "item", "load", "links", "save", "close", "next" }

\* C16: the traversal is Init -> Filtered -> ListingPage* -> Done.  No page is
\* read and no item harvested unless click_period has succeeded in this
\* execution; the pages read are 1, 2, ... in order, each after a True of
\* goto_next_page on the one before; the loop is entered from the filter and
\* re-entered only by a True of goto_next_page; after a False, a raise, or an
\* empty list the execution only ends: no read, no harvest, no advance, no
\* write.
C16_TraversalStateMachine ==
    [][ /\ pc' \in InLoop => filtered'
        /\ (reads' # << >> \/ inserted' > 0) => filtered'
        /\ reads' = [p \in 1..Len(reads') |-> p]
        /\ \A p \in 1..(Len(reads') - 1) : p \in navs' /\ resp'.next[p] = "ok"
        /\ (pc' = "list" /\ pc # "list") =>
              \/ pc = "filter" /\ filtered' /\ reads' = << >>
              \/ pc = "next" /\ adv'.ret = "True"
        /\ (pc = "next" /\ adv'.ret # "True") => pc' = "quit"
        /\ (pc = "list" /\ articles_on_page' = << >>) => pc' = "quit"
        /\ pc = "quit" =>
              /\ pc' = "start"
              /\ db' = db
              /\ Len(hist') = Len(hist) + 1
              /\ hist'[Len(hist')].reads = reads
              /\ hist'[Len(hist')].navs = navs
              /\ hist'[Len(hist')].inserted = inserted
              /\ (reads # << >> \/ inserted > 0) => hist'[Len(hist')].filtered ]_vars

\* an execution that went through the filter, two pages with one item each,
\* and ended where page 2 has no next control
C16_Witness ==
    /\ Len(hist) = 1
    /\ hist[1].filtered
    /\ hist[1].reads = <<1, 2>>
    /\ hist[1].adv.page = 2
    /\ hist[1].adv.control = "absent"
    /\ hist[1].inserted = 2

\* the positions of the scraper inside scrape_article
InHarvest == { "item", "load", "links", "save", "close" }

\* C18: a harvest, ended well or by an exception, leaves the listing window's
\* page indicator and main's loaded list as they were; there is never more
\* than one tab besides the listing window, and there is none, with the
\* driver on the listing window, whenever extract_list_items or
\* goto_next_page is about to run.
C18_ListingUndisturbed ==
    [][ /\ tabs' <= 1
        /\ pc' \in { "list", "next" } => (tabs' = 0 /\ focus' = "parent")
        /\ pc \in InHarvest =>
              /\ cursor' = cursor
              /\ page_no' = page_no
              /\ articles_on_page' = articles_on_page ]_vars

\* both items of a page were harvested, each in its own tab, and main is
\* about to call goto_next_page on the page it read
C18_Witness ==
    /\ pc = "next"
    /\ Len(articles_on_page) = 2
    /\ idx = 2
    /\ inserted = 2
    /\ tabs = 0
    /\ cursor = 1
    /\ articles_on_page = extract_list_items(PageLis(site, 1))

\* no link of the detail page is an attachment
NoAttachments(url) ==
    \A i \in 1..Len(DetailPage(url).links) : ~DL_EXT_PATTERN(DetailPage(url).links[i])

\* C19: the table is written only by the insert at the end of a harvest,
\* after the body and every link have been dealt with and only if nothing was
\* raised; for an item whose url is not in the table a harvest that goes
\* through adds exactly one row: url, title and publication date of the
\* listing item, the body text of the detail page, the joined blocks of the
\* attachments (the empty text when the page has none), status pending. A
\* harvest whose insert raises stores nothing.
C19_PersistedRecord ==
    [][ /\ pc # "save" => db' = db
        /\ pc = "save" =>
              /\ exc = NoExc
              /\ linkIdx = Len(DetailPage(art.url).links) + 1
              /\ article_text = BodyText(DetailPage(art.url))
        /\ (pc = "save" /\ exc' # NoExc) => db' = db
        /\ (pc = "save" /\ hasTable /\ ~env.shared) => exc' = NoExc
        /\ (pc = "save" /\ exc' = NoExc /\ art.url \notin UrlsOf(db)) =>
              /\ Len(db') = Len(db) + 1
              /\ \A i \in 1..Len(db) : db'[i] = db[i]
              /\ Cardinality({ i \in 1..Len(db') : db'[i].url = art.url }) = 1
              /\ LET r == db'[Len(db')]
                 IN  /\ r.url = art.url
                     /\ r.title = art.title
                     /\ r.publication_date = art.date
                     /\ r.article_text = BodyText(DetailPage(art.url))
                     /\ r.attachments_text = Join(NL \o NL, parts)
                     /\ NoAttachments(art.url) => r.attachments_text = << >>
                     /\ r.processing_status = "pending" ]_vars

\* the item /n/2, whose page has one paragraph and no attachment, was
\* harvested into an empty table
C19_Witness ==
    /\ pc = "close"
    /\ saved # << >>
    /\ art.url.path = "/n/2"
    /\ Len(db) = 1
    /\ db[1].url = art.url
    /\ db[1].title = "t2"
    /\ db[1].article_text = <<"Only paragraph.">>
    /\ db[1].attachments_text = << >>
    /\ db[1].processing_status = "pending"

\* C20: an insert whose url is in the table changes nothing: the row with
\* that url and every other row are as before and no row is added; and no
\* step of the scraper changes or removes a row.
C20_DuplicateIsNoOp ==
    [][ /\ (pc = "save" /\ art.url \in UrlsOf(db)) =>
              /\ db' = db
              /\ inserted' = inserted
              /\ saved' = <<full_article_data>>
        /\ Len(db') >= Len(db)
        /\ \A i \in 1..Len(db) : db'[i] = db[i] ]_vars

\* the table held the analysed row of /n/1; the item /n/1 was harvested with
\* another title and handed to the insert, and the row is as it was
C20_Witness ==
    /\ pc = "close"
    /\ saved # << >>
    /\ saved[1].url = OldRow.url
    /\ saved[1].title # OldRow.title
    /\ saved[1].article_text # OldRow.article_text
    /\ db = <<OldRow>>
    /\ inserted = 0

\* C21: from build_driver on, the browser session is open for as long as main
\* runs and is quit when main ends, on every exit path: a process that is not
\* inside main holds no open session, every way out of main after build_driver
\* passes through the finally and quits the session there, and while the
\* session is not open no step loads, reads or advances a page.
C21_SessionReleased ==
    /\ [](pc = "start" => session # "open")
    /\ [](pc # "start" => session = "open")
    /\ [][ /\ (pc # "start" /\ pc' = "start") =>
                 /\ pc \in { "quit", "finally" }
                 /\ session' = "quit"
                 /\ Len(hist') = Len(hist) + 1
                 /\ hist'[Len(hist')].outcome \in { "completed", "denied", "exception" }
           /\ (session # "open" /\ session' # "open") =>
                 UNCHANGED <<resp, tabs, focus, listVars, itemVars, exc, traceVars,
                             filtered, screenshot, db>> ]_vars

\* an execution started with --keep has read a page, ended its loop, waited
\* for the operator and, after Enter, completed with the session quit
C21_Witness ==
    /\ pc = "start"
    /\ session = "quit"
    /\ hold_open(argv)
    /\ Len(hist) = 1
    /\ hist[1].outcome = "completed"
    /\ hist[1].reads # << >>

\* beside C21: the other exit paths end with the session quit as well
C21_WitnessDenied ==
    pc = "start" /\ session = "quit" /\ hist # << >> /\ hist[Len(hist)].outcome = "denied"

C21_WitnessAdvance ==
    pc = "start" /\ session = "quit" /\ hist # << >> /\ hist[Len(hist)].at = "advance"

C21_WitnessLoad ==
    pc = "start" /\ session = "quit" /\ hist # << >> /\ hist[Len(hist)].at = "load"

C21_WitnessOpen ==
    pc = "start" /\ session = "quit" /\ hist # << >> /\ hist[Len(hist)].at = "open"

C21_WitnessSave ==
    pc = "start" /\ session = "quit" /\ hist # << >> /\ hist[Len(hist)].at = "save"

C21_WitnessEndOfInput ==
    pc = "start" /\ session = "quit" /\ hist # << >> /\ hist[Len(hist)].at = "keep"

\* C22 (as claimed): an analysis run goes through its pending records, and a
\* record it cannot analyse is left pending while the run continues with the
\* next one; so no run that found pending records is ended by a record.
C22_RunContinuesPastRecord ==
    \A k \in 1..Len(alog) : alog[k] # "AttributeError"

\* beside C22: no execution of main changes a row, so no record is set to
\* processed by a run, whatever its company name and whatever the response
C22_MainWritesNothing ==
    [][ alog' # alog => db' = db ]_vars

\* beside C22: on the table database_setup.py creates, the SELECT of main
\* fails before any record is looked at
C22_SelectNeedsColumn ==
    (alog # << >> /\ "company_name" \notin columns) =>
        \A k \in 1..Len(alog) : alog[k] = "OperationalError"

\* C23: every execution that has started ends, normally or by an exception,
\* or has ended its loop, printed "complete" and holds the browser open for
\* the operator, as --keep asks: a process inside main is eventually outside
\* it again or at input(). The loop of main reads at most one page more than
\* the listing has, and the page counter stays below its cap, so no advance
\* is ever held back by the cap.
C23_RunTerminates ==
    /\ (pc # "start") ~> (pc = "start" \/ AwaitsOperator)
    /\ [](Len(reads) <= NumPages(site) + 1)
    /\ [](pc = "next" => page_no <= NumPages(site))

\* an execution over a listing of two pages has read both, advanced once, found
\* the next control unusable on the second page and ended normally
C23_Witness ==
    /\ pc = "start"
    /\ hist # << >>
    /\ hist[Len(hist)].outcome = "completed"
    /\ Len(hist[Len(hist)].reads) = 2
    /\ hist[Len(hist)].navs = { 1 }
    /\ NumPages(site) = 2

\* beside C23: the liveness part alone; and that a process does not end by
\* itself while it waits at input()
C23_EveryRunEnds ==
    (pc # "start") ~> (pc = "start" \/ AwaitsOperator)

C23_EndsWithoutOperator ==
    (pc # "start") ~> (pc = "start")

====
